---- MODULE Spec2Model ----
(***************************************************************************)
(* Model of the ohmymem memory-file storage engine                         *)
(* (internal/infrastructure/persistence/memory_repository.go) together     *)
(* with the request path that feeds it (internal/domain/memory_service.go, *)
(* internal/application/usecase/mcp.go).                                   *)
(*                                                                         *)
(* Text is modelled as a sequence of atoms.  An atom is a run of bytes     *)
(* that the program only ever handles as a whole: a literal of a format    *)
(* string or of a regular expression ("<!-- entry-id: ", "## ", "\n"), or  *)
(* an opaque piece of user text ("x").  Offsets are atom offsets and are   *)
(* 0-based as in Go; s[a:b] is Slice(s, a, b).                             *)
(***************************************************************************)
EXTENDS Integers, Sequences, FiniteSets, TLC

\* ------------------------------------------------------------------ atoms
NL == "\n"
HASHES == "## "
L_OPEN == "<!-- entry-id: "
L_TAG == ", tag: "
L_TIME == ", time: "
L_CLOSE == " -->"
L_STAR == "* **["
L_TAGEND == "]** "
L_RAT == " (*Rationale:"
L_RATEND == "*)"
L_END == "<!-- entry-end -->"
SP == " "
LB == "["
RB == "]"

\* ------------------------------------------------------- Go strings package
Min(S) == CHOOSE x \in S : \A y \in S : x <= y

\* s[a:b]
Slice(s, a, b) == SubSeq(s, a + 1, b)

\* s[a:]
SliceFrom(s, a) == SubSeq(s, a + 1, Len(s))

\* strings.HasPrefix
HasPrefix(s, p) == Len(p) <= Len(s) /\ SubSeq(s, 1, Len(p)) = p

\* strings.Index: offset of the first occurrence of sub in s, -1 if none
Index(s, sub) ==
    LET hits == {i \in 0..(Len(s) - Len(sub)) : Slice(s, i, i + Len(sub)) = sub}
    IN  IF hits = {} THEN -1 ELSE Min(hits)

\* strings.Contains
Contains(s, sub) == Index(s, sub) # -1

\* strings.TrimPrefix
TrimPrefix(s, p) == IF HasPrefix(s, p) THEN SliceFrom(s, Len(p)) ELSE s

\* strings.Split(s, "\n"): the lines of s, without their newlines
RECURSIVE SplitLines(_)
SplitLines(s) ==
    LET i == Index(s, <<NL>>)
    IN  IF i = -1 THEN <<s>>
        ELSE <<Slice(s, 0, i)>> \o SplitLines(SliceFrom(s, i + 1))

\* strings.ToUpper on the one-byte atoms that start a section name
ToUpper(a) ==
    CASE a = "c" -> "C"
      [] a = "d" -> "D"
      [] a = "p" -> "P"
      [] a = "a" -> "A"
      [] a = "n" -> "N"
      [] OTHER -> a

\* ------------------------------------------------------------ domain types
\* SectionType values, spelled so that the first atom is the first byte
SectionConstraints == <<"c", "onstraints">>
SectionDecisions == <<"d", "ecisions">>
SectionPatterns == <<"p", "atterns">>
SectionAntiPatterns == <<"a", "nti-", "p", "atterns">>
SectionNote == <<"n", "ote">>

\* SectionType.IsValid
IsValid(s) ==
    s \in {SectionConstraints, SectionDecisions, SectionPatterns,
           SectionAntiPatterns, SectionNote}

\* time.Time as seconds plus a sub-second part; the zero Time is ZeroTime
ZeroTime == [sec |-> 0, nsec |-> 0]

\* Time.Format(time.RFC3339): whole seconds only
FormatRFC3339(t) ==
    CASE t.sec = 0 -> <<"0001-01-01T00:00:00Z">>
      [] t.sec = 1 -> <<"2024-01-15T10:30:01Z">>
      [] OTHER -> <<"2024-01-15T10:30:02Z">>

\* ------------------------------------------------- domain/memory_service.go
\* The atoms ValidateContent looks for, one atom each
\* (FENCE stands for the three-backquote sequence)
FENCE == "(fence)"

Forbidden == {NL, "\r", "###", FENCE, "<", ">"}

\* Bytes of an atom, for len(); every atom not listed is one byte.  "x*49" is
\* a run of 49 one-byte characters, "U+00E9" the two-byte character of that
\* code point, "U+00E9*25" a run of 25 of them.
Width(a) ==
    CASE a = "x" -> 1
      [] a = "y" -> 1
      [] a \in {HASHES, "###", FENCE} -> 3
      [] a = "- " -> 2
      [] a = "* " -> 2
      [] a = "ecisions" -> 8
      [] a = "atterns" -> 7
      [] a = "onstraints" -> 10
      [] a = "nti-" -> 4
      [] a = "ote" -> 3
      [] a = "x*49" -> 49
      [] a = "x*499" -> 499
      [] a = "x*1999" -> 1999
      [] a = "U+00E9" -> 2
      [] a = "U+00E9*25" -> 50
      [] OTHER -> 1

\* len(s) in bytes
RECURSIVE ByteLen(_)
ByteLen(s) == IF s = <<>> THEN 0 ELSE Width(Head(s)) + ByteLen(Tail(s))

\* strings.TrimSpace
IsSpace(a) == a \in {SP, NL, "\r", "\t"}

RECURSIVE TrimLeftSpace(_)
TrimLeftSpace(s) ==
    IF s # <<>> /\ IsSpace(Head(s)) THEN TrimLeftSpace(Tail(s)) ELSE s

RECURSIVE TrimRightSpace(_)
TrimRightSpace(s) ==
    IF s # <<>> /\ IsSpace(s[Len(s)])
    THEN TrimRightSpace(SubSeq(s, 1, Len(s) - 1)) ELSE s

TrimSpace(s) == TrimRightSpace(TrimLeftSpace(s))

\* ValidateContent as it would be without strings.TrimSpace
ValidateContentUntrimmed(content) ==
    IF \E i \in 1..Len(content) : content[i] \in Forbidden
    THEN "ErrForbiddenContent"
    ELSE IF HasPrefix(content, <<"- ">>) \/ HasPrefix(content, <<"* ">>)
         THEN "ErrListItem"
         ELSE "ok"

\* ValidateContent: "ok" or the error
ValidateContent(content) ==
    IF \E i \in 1..Len(content) : content[i] \in Forbidden
    THEN "ErrForbiddenContent"
    ELSE IF HasPrefix(TrimSpace(content), <<"- ">>)
            \/ HasPrefix(TrimSpace(content), <<"* ">>)
         THEN "ErrListItem"
         ELSE "ok"

MaxTagLen == 50
MaxContentLen == 2000
MaxRationaleLen == 500

\* ValidateInput: "ok" or the error.  The default category is applied to the
\* copy of the input that the function received.
ValidateInput(input) ==
    LET category == IF input.Category = <<>> THEN SectionNote ELSE input.Category
    IN  IF ~IsValid(category) THEN "ErrInvalidCategory"
        ELSE IF ByteLen(input.Tag) = 0 THEN "ErrInvalidTag"
        ELSE IF ByteLen(input.Tag) > MaxTagLen THEN "ErrInvalidTag"
        ELSE IF ByteLen(input.Content) = 0 THEN "ErrInvalidContent"
        ELSE IF ByteLen(input.Content) > MaxContentLen THEN "ErrInvalidContent"
        ELSE IF ValidateContent(input.Content) # "ok"
             THEN ValidateContent(input.Content)
        ELSE IF ByteLen(input.Rationale) > MaxRationaleLen
             THEN "ErrInvalidRationale"
        ELSE "ok"

\* strings.Trim(tag, "[]")
IsBracket(a) == a \in {LB, RB}

RECURSIVE TrimLeftBrackets(_)
TrimLeftBrackets(s) ==
    IF s # <<>> /\ IsBracket(Head(s)) THEN TrimLeftBrackets(Tail(s)) ELSE s

RECURSIVE TrimRightBrackets(_)
TrimRightBrackets(s) ==
    IF s # <<>> /\ IsBracket(s[Len(s)])
    THEN TrimRightBrackets(SubSeq(s, 1, Len(s) - 1)) ELSE s

TrimBrackets(s) == TrimRightBrackets(TrimLeftBrackets(s))

\* PrepareEntry
PrepareEntry(input, id, now) ==
    LET tag == IF ~HasPrefix(input.Tag, <<LB>>)
               THEN <<LB>> \o input.Tag \o <<RB>> ELSE input.Tag
    IN  [ID |-> id, Tag |-> tag, TagName |-> TrimBrackets(tag),
         Content |-> input.Content, Rationale |-> input.Rationale,
         CreatedAt |-> now]

\* ------------------------------------- persistence/memory_repository.go
\* createInitialContent; now is timeProvider.Now(), taken to be the instant
\* the request was stamped with
createInitialContent(now) ==
    <<"---", NL, "schema_version: \"0.1\"", NL, "entry_format: \"anchored\"", NL,
      "created_at: \"">> \o FormatRFC3339(now) \o <<"\"", NL, "---", NL,
      NL, HASHES, "C", "onstraints", NL,
      NL, HASHES, "D", "ecisions", NL,
      NL, HASHES, "P", "atterns", NL,
      NL, HASHES, "A", "nti-", "P", "atterns", NL>>

\* capitalize
capitalize(s) == IF s = <<>> THEN s ELSE <<ToUpper(s[1])>> \o Tail(s)

\* findSectionStart
findSectionStart(content, section) == Index(content, <<HASHES>> \o section)

\* The three bytes of "## " that findSectionEnd steps over are one atom
HeaderSkip == 1

\* findSectionEnd
findSectionEnd(content, start) ==
    LET remaining == SliceFrom(content, start + HeaderSkip)
        lines == SplitLines(remaining)
        found == {k \in 1..Len(lines) : HasPrefix(lines[k], <<HASHES>>)}
    IN  IF found = {} THEN Len(content)
        ELSE start + HeaderSkip + Index(remaining, lines[Min(found)])

\* extractSection
extractSection(content, sectionType) ==
    LET section == capitalize(sectionType)
        start == findSectionStart(content, section)
    IN  IF start = -1 THEN <<>>
        ELSE TrimPrefix(Slice(content, start, findSectionEnd(content, start)),
                        <<HASHES>> \o section \o <<NL>>)

\* renderEntry
renderEntry(entry) ==
    <<L_OPEN>> \o entry.ID \o <<L_TAG>> \o entry.Tag \o <<L_TIME>>
        \o FormatRFC3339(entry.CreatedAt) \o <<L_CLOSE, NL>>
        \o <<L_STAR>> \o entry.TagName \o <<L_TAGEND>> \o entry.Content
        \o (IF entry.Rationale # <<>>
            THEN <<L_RAT, SP>> \o entry.Rationale \o <<L_RATEND>> ELSE <<>>)
        \o <<NL, L_END>>

\* The splice of AppendEntry ("Build new content")
Splice(content, sectionStart, sectionEnd, renderedEntry) ==
    Slice(content, 0, sectionStart) \o Slice(content, sectionStart, sectionEnd)
        \o renderedEntry \o <<NL>> \o SliceFrom(content, sectionEnd)

\* ---------------------------------------------------- the entry parsers
\* Atoms made only of the bytes [a-f0-9-]
HexAtoms == {"a1", "a2", "a3", "a4", "a5", "-"}

IsHex(a) == a \in HexAtoms

\* [^\]]: atoms that do not hold the byte "]"
NotRB(a) == a \notin {RB, L_TAGEND}

\* [^\n] and "."
NotNL(a) == a # NL

\* The character classes of the regular expressions
InClass(a, class) ==
    CASE class = "[a-f0-9-]" -> IsHex(a)
      [] class = "[^\\]]" -> NotRB(a)
      [] OTHER -> NotNL(a)

\* The last position of the longest run of atoms in class that starts at
\* position i (1-based); i - 1 when the run is empty
RunEnd(s, i, class) ==
    LET bad == {k \in i..Len(s) : ~InClass(s[k], class)}
    IN  IF bad = {} THEN Len(s) ELSE Min(bad) - 1

At(s, i) == IF i >= 1 /\ i <= Len(s) THEN s[i] ELSE "(none)"

\* (.+?)(?: \(\*Rationale:(.+?)\*\))? on the atoms m..n of s, which reach the
\* end of the line: the lazy content and the optional rationale group
ContentGroups(s, m, n) ==
    LET cuts == {q \in m..(n - 3) : s[q + 1] = L_RAT /\ s[n] = L_RATEND}
    IN  IF cuts = {}
        THEN [content |-> SubSeq(s, m, n), rationale |-> <<>>]
        ELSE [content |-> SubSeq(s, m, Min(cuts)),
              rationale |-> SubSeq(s, Min(cuts) + 2, n - 1)]

NoMatch == [ok |-> FALSE]

\* anchoredEntryRegex matched at position i (1-based) of s: the submatches
\* m1..m6 and the position after the match, or NoMatch
MatchAnchoredAt(s, i) ==
    LET b == RunEnd(s, i + 1, "[a-f0-9-]")
        d == RunEnd(s, b + 3, "[^\\]]")
        f == RunEnd(s, d + 3, "[^\\n]")
        g == f + 2
        k == RunEnd(s, g + 1, "[^\\]]")
        m == k + 2
        n == RunEnd(s, m, "[^\\n]")
    IN  IF /\ (i = 1 \/ At(s, i - 1) = NL)
           /\ At(s, i) = L_OPEN
           /\ b >= i + 1
           /\ At(s, b + 1) = L_TAG /\ At(s, b + 2) = LB
           /\ d >= b + 3
           /\ At(s, d + 1) = RB /\ At(s, d + 2) = L_TIME
           /\ f >= d + 4 /\ At(s, f) = L_CLOSE /\ At(s, f + 1) = NL
           /\ At(s, g) = L_STAR
           /\ k >= g + 1
           /\ At(s, k + 1) = L_TAGEND
           /\ n >= m /\ At(s, n + 1) = NL
           /\ At(s, n + 2) = L_END
           /\ (n + 2 = Len(s) \/ At(s, n + 3) = NL)
        THEN [ok |-> TRUE,
              m1 |-> SubSeq(s, i + 1, b),
              m2 |-> SubSeq(s, b + 3, d),
              m3 |-> SubSeq(s, d + 3, f - 1),
              m4 |-> SubSeq(s, g + 1, k),
              m5 |-> ContentGroups(s, m, n).content,
              m6 |-> ContentGroups(s, m, n).rationale,
              next |-> n + 3]
        ELSE NoMatch

\* FindAllStringSubmatch(block, -1): the leftmost non-overlapping matches
RECURSIVE FindAllFrom(_, _)
FindAllFrom(s, i) ==
    IF i > Len(s) THEN <<>>
    ELSE LET mt == MatchAnchoredAt(s, i)
         IN  IF mt.ok THEN <<mt>> \o FindAllFrom(s, mt.next)
             ELSE FindAllFrom(s, i + 1)

\* parseV1Anchored: err is TRUE when no block matched
parseV1Anchored(block) ==
    LET matches == FindAllFrom(block, 1)
    IN  [err |-> matches = <<>>,
         entries |-> [j \in 1..Len(matches) |->
                        [ID |-> matches[j].m1,
                         Tag |-> <<LB>> \o matches[j].m2 \o <<RB>>,
                         TagName |-> matches[j].m2,
                         Content |-> matches[j].m3,
                         Rationale |-> matches[j].m4,
                         CreatedAt |-> ZeroTime]]]

\* legacyEntryRegex on one trimmed line
MatchLegacy(line) ==
    LET k == RunEnd(line, 2, "[^\\]]")
        m == k + 2
    IN  IF /\ At(line, 1) = L_STAR
           /\ k >= 2
           /\ At(line, k + 1) = L_TAGEND
           /\ Len(line) >= m
           /\ \A j \in m..Len(line) : line[j] # NL
        THEN [ok |-> TRUE,
              m1 |-> SubSeq(line, 2, k),
              m2 |-> ContentGroups(line, m, Len(line)).content,
              m3 |-> ContentGroups(line, m, Len(line)).rationale]
        ELSE NoMatch

\* parseLegacyInline
RECURSIVE LegacyEntries(_)
LegacyEntries(lines) ==
    IF lines = <<>> THEN <<>>
    ELSE LET line == TrimSpace(Head(lines))
             mt == MatchLegacy(line)
         IN  (IF HasPrefix(line, <<L_STAR>>) /\ mt.ok
              THEN <<[ID |-> <<>>,
                      Tag |-> <<LB>> \o mt.m1 \o <<RB>>,
                      TagName |-> mt.m1,
                      Content |-> mt.m2,
                      Rationale |-> mt.m3,
                      CreatedAt |-> ZeroTime]>>
              ELSE <<>>) \o LegacyEntries(Tail(lines))

parseLegacyInline(block) == LegacyEntries(SplitLines(block))

\* GetSection as it would be if it added what parseLegacyInline finds to the
\* anchored entries
GetSectionMerging(content, sectionType) ==
    LET sectionBlock == extractSection(content, sectionType)
        v1 == parseV1Anchored(sectionBlock)
        legacyEntries == parseLegacyInline(sectionBlock)
    IN  IF content = <<>> THEN [entries |-> <<>>, warn |-> FALSE]
        ELSE IF sectionBlock = <<>> THEN [entries |-> <<>>, warn |-> FALSE]
        ELSE IF ~v1.err
             THEN [entries |-> v1.entries \o legacyEntries,
                   warn |-> Len(legacyEntries) > 0]
        ELSE IF Len(legacyEntries) > 0
             THEN [entries |-> legacyEntries, warn |-> TRUE]
        ELSE [entries |-> <<>>, warn |-> FALSE]

\* GetSection on the text readFile returned: the entries of the Section and
\* whether the legacy-format warning is logged
GetSection(content, sectionType) ==
    LET sectionBlock == extractSection(content, sectionType)
        v1 == parseV1Anchored(sectionBlock)
        legacyEntries == parseLegacyInline(sectionBlock)
    IN  IF content = <<>> THEN [entries |-> <<>>, warn |-> FALSE]
        ELSE IF sectionBlock = <<>> THEN [entries |-> <<>>, warn |-> FALSE]
        ELSE IF ~v1.err THEN [entries |-> v1.entries, warn |-> FALSE]
        ELSE IF Len(legacyEntries) > 0
             THEN [entries |-> legacyEntries, warn |-> TRUE]
        ELSE [entries |-> <<>>, warn |-> FALSE]

\* AppendPlan as it would be if a missing heading were added at the end of
\* the document
AppendPlanInventing(content, sectionType, entry, now) ==
    LET doc == IF content = <<>> THEN createInitialContent(now) ELSE content
        renderedEntry == renderEntry(entry)
        section == capitalize(sectionType)
        sectionStart == findSectionStart(doc, section)
        sectionEnd == findSectionEnd(doc, sectionStart)
    IN  IF sectionStart = -1
        THEN [found |-> TRUE,
              newContent |-> doc \o <<HASHES>> \o section \o <<NL>>
                                 \o renderedEntry \o <<NL>>]
        ELSE [found |-> TRUE,
              newContent |-> Splice(doc, sectionStart, sectionEnd, renderedEntry)]

\* The outcome of steps 2 to 5 of AppendEntry on the text readFile returned:
\* whether the section was found and the new content to persist
AppendPlan(content, sectionType, entry, now) ==
    LET doc == IF content = <<>> THEN createInitialContent(now) ELSE content
        renderedEntry == renderEntry(entry)
        section == capitalize(sectionType)
        sectionStart == findSectionStart(doc, section)
        sectionEnd == findSectionEnd(doc, sectionStart)
    IN  IF sectionStart = -1
        THEN [found |-> FALSE, newContent |-> <<>>]
        ELSE [found |-> TRUE,
              newContent |-> Splice(doc, sectionStart, sectionEnd, renderedEntry)]

\* ===================================================== the storage engine
\* One caller is one ohmymem_capture request; callers may be goroutines of
\* one server or separate processes sharing the project directory.
NumCallers == 2

Callers == 1..NumCallers

\* uuidGen.NewV7() for the request of caller c
IdAtoms == <<"a1", "a2", "a3", "a4", "a5">>

NewV7(c) == <<IdAtoms[c]>>

\* timeProvider.Now()
Times == {[sec |-> 1, nsec |-> 1]}

Absent == [exists |-> FALSE, data |-> <<>>]

\* Nothing read yet
NoRead ==
    [op |-> "none", n |-> 0, fault |-> FALSE, err |-> FALSE, text |-> <<>>, Type |-> <<>>,
     entries |-> <<>>, warn |-> FALSE]

\* No init run yet
NoInit == [pc |-> "idle", content |-> <<>>]

NoEntry ==
    [ID |-> <<>>, Tag |-> <<>>, TagName |-> <<>>, Content |-> <<>>,
     Rationale |-> <<>>, CreatedAt |-> ZeroTime]

VARIABLES
    pool,        \* the capture requests the callers may send
    file,        \* .ohmymem/memory.md
    tmp,         \* .ohmymem/memory.md.tmp
    lockHolder,  \* the caller whose Flock holds .memory.lock, 0 if none
    pc,          \* where each caller is in handleCaptureMemory / AppendEntry
    gor,         \* the goroutine acquireLock starts for each caller
    ctx,         \* the request context: "none" outside a request, "live",
                 \* "early" (cancelled before fl.Lock() returned) or "late"
    section,     \* sectionType passed to AppendEntry
    entry,       \* entry passed to AppendEntry
    content,     \* content read by AppendEntry
    newContent,  \* newContent built by AppendEntry
    result,      \* what the call returned
    unlockErr,   \* whether "failed to unlock file" was logged for the call
    got,         \* what the last ReadAll or GetSection returned
    ini          \* the run of ohmymem init on the project, if any

vars ==
    <<pool, file, tmp, lockHolder, pc, gor, ctx, section, entry, content,
      newContent, result, unlockErr, got, ini>>

\* The requests of the concurrency runs: two sections, plain text and text
\* that quotes a heading
Inputs ==
    [Category : {SectionConstraints, SectionDecisions},
     Tag : {<<"x">>},
     Content : {<<"x">>, <<"x", HASHES, "D", "ecisions">>},
     Rationale : {<<>>},
     Now : Times]

\* Plain text for a section that is found and for one that is not
PlainInputs ==
    [Category : {SectionConstraints, SectionAntiPatterns}, Tag : {<<"x">>},
     Content : {<<"x">>}, Rationale : {<<>>}, Now : Times]

InitWith(requests) ==
    /\ pool = requests
    /\ file = Absent
    /\ tmp = Absent
    /\ lockHolder = 0
    /\ pc = [c \in Callers |-> "idle"]
    /\ gor = [c \in Callers |-> "none"]
    /\ ctx = [c \in Callers |-> "none"]
    /\ section = [c \in Callers |-> <<>>]
    /\ entry = [c \in Callers |-> NoEntry]
    /\ content = [c \in Callers |-> <<>>]
    /\ newContent = [c \in Callers |-> <<>>]
    /\ result = [c \in Callers |-> "none"]
    /\ unlockErr = [c \in Callers |-> FALSE]
    /\ got = NoRead
    /\ ini = NoInit

Init == InitWith(Inputs)

InitLock == InitWith(PlainInputs)

\* Callers that have started a call and have neither returned nor died
Running(c) == pc[c] \notin {"idle", "done", "crashed"}

\* The call of caller c, made with sectionType s and entry e, returns r: its
\* context and its locals are gone.  What was asked is kept on record for the
\* calls that got as far as looking for the section.
ReturnWith(c, r, s, e) ==
    /\ pc' = [pc EXCEPT ![c] = "done"]
    /\ result' = [result EXCEPT ![c] = r]
    /\ ctx' = [ctx EXCEPT ![c] = "none"]
    /\ content' = [content EXCEPT ![c] = <<>>]
    /\ newContent' = [newContent EXCEPT ![c] = <<>>]
    /\ section' = [section EXCEPT ![c] = IF r \in {"ok", "notfound"} THEN s ELSE <<>>]
    /\ entry' = [entry EXCEPT ![c] = IF r \in {"ok", "notfound"} THEN e ELSE NoEntry]

Return(c, r) == ReturnWith(c, r, section[c], entry[c])

\* handleCaptureMemory as it would be without the call of ValidateInput
CaptureUnchecked(c, input, idOk, dirOk) ==
    /\ pc[c] = "idle"
    /\ IF ~idOk
       THEN Return(c, "iderr") /\ UNCHANGED gor
       ELSE IF ~dirOk
       THEN Return(c, "mkdirerr") /\ UNCHANGED gor
       ELSE /\ section' = [section EXCEPT ![c] = input.Category]
            /\ entry' = [entry EXCEPT ![c] =
                           PrepareEntry(input, NewV7(c), input.Now)]
            /\ pc' = [pc EXCEPT ![c] = "select"]
            /\ gor' = [gor EXCEPT ![c] = "start"]
            /\ ctx' = [ctx EXCEPT ![c] = "live"]
            /\ UNCHANGED <<result, content, newContent>>
    /\ UNCHANGED <<got, ini, pool, file, tmp, lockHolder, unlockErr>>

\* handleCaptureMemory up to the select of acquireLock: ValidateInput, NewV7,
\* Now, PrepareEntry, AppendEntry, EnsureDir, flock.New and the go statement.
\* (A context that is already cancelled on entry is Capture followed by Cancel.)
Capture(c, input, idOk, dirOk) ==
    /\ pc[c] = "idle"
    /\ IF ValidateInput(input) # "ok"
       THEN Return(c, ValidateInput(input)) /\ UNCHANGED gor
       ELSE IF ~idOk
       THEN Return(c, "iderr") /\ UNCHANGED gor
       ELSE IF ~dirOk
       THEN Return(c, "mkdirerr") /\ UNCHANGED gor
       ELSE /\ section' = [section EXCEPT ![c] = input.Category]
            /\ entry' = [entry EXCEPT ![c] =
                           PrepareEntry(input, NewV7(c), input.Now)]
            /\ pc' = [pc EXCEPT ![c] = "select"]
            /\ gor' = [gor EXCEPT ![c] = "start"]
            /\ ctx' = [ctx EXCEPT ![c] = "live"]
            /\ UNCHANGED <<result, content, newContent>>
    /\ UNCHANGED <<got, ini, pool, file, tmp, lockHolder, unlockErr>>

\* The caller cancels the request context.  A select that is blocked is woken
\* on its ctx.Done() case.
Cancel(c) ==
    /\ Running(c)
    /\ ctx[c] = "live"
    /\ ctx' = [ctx EXCEPT ![c] =
                 IF gor[c] \in {"start", "inlock"} THEN "early" ELSE "late"]
    /\ pc' = [pc EXCEPT ![c] = IF pc[c] = "blocked" THEN "abort" ELSE pc[c]]
    /\ UNCHANGED <<got, ini, pool, file, tmp, lockHolder, gor, section, entry, content,
                   newContent, result, unlockErr>>

\* The select statement of acquireLock is reached: it blocks when no case is
\* ready and otherwise takes one of the ready cases.
Select(c, takeDone) ==
    /\ pc[c] = "select"
    /\ IF ctx[c] = "live" /\ gor[c] \notin {"held", "failed"}
       THEN /\ pc' = [pc EXCEPT ![c] = "blocked"]
            /\ UNCHANGED <<result, ctx, content, newContent, section, entry>>
       ELSE /\ IF takeDone THEN ctx[c] # "live" ELSE gor[c] \in {"held", "failed"}
            /\ IF takeDone
               THEN /\ pc' = [pc EXCEPT ![c] = "abort"]
                    /\ UNCHANGED <<result, ctx, content, newContent, section, entry>>
               ELSE IF gor[c] = "failed"
               THEN Return(c, "lockerr")
               ELSE /\ pc' = [pc EXCEPT ![c] = "read"]
                    /\ UNCHANGED <<result, ctx, content, newContent, section, entry>>
    /\ UNCHANGED <<got, ini, pool, file, tmp, lockHolder, gor, unlockErr>>

\* The goroutine enters fl.Lock(), which holds the mutex of the Flock until
\* it returns
GoEnter(c) ==
    /\ gor[c] = "start"
    /\ gor' = [gor EXCEPT ![c] = "inlock"]
    /\ UNCHANGED <<got, ini, pool, file, tmp, lockHolder, pc, ctx, section, entry,
                   content, newContent, result, unlockErr>>

\* GoLock as it would be with a lock that does not exclude other holders
GoLockShared(c, ok) ==
    /\ gor[c] = "inlock"
    /\ IF ok
       THEN /\ lockHolder' = c
            /\ gor' = [gor EXCEPT ![c] = "held"]
            /\ pc' = [pc EXCEPT ![c] = IF pc[c] = "blocked" THEN "read" ELSE pc[c]]
            /\ UNCHANGED <<result, ctx, content, newContent, section, entry>>
       ELSE /\ gor' = [gor EXCEPT ![c] = "failed"]
            /\ UNCHANGED lockHolder
            /\ IF pc[c] = "blocked"
               THEN Return(c, "lockerr")
               ELSE UNCHANGED <<pc, result, ctx, content, newContent, section, entry>>
    /\ UNCHANGED <<got, ini, pool, file, tmp, unlockErr>>

\* fl.Lock() returns in the goroutine, which then closes the channel locked:
\* with the lock once no other Flock holds it (ok), or with an error.  A select
\* that is blocked is woken on its locked case.
GoLock(c, ok) ==
    /\ gor[c] = "inlock"
    /\ IF ok
       THEN /\ lockHolder = 0
            /\ lockHolder' = c
            /\ gor' = [gor EXCEPT ![c] = "held"]
            /\ pc' = [pc EXCEPT ![c] = IF pc[c] = "blocked" THEN "read" ELSE pc[c]]
            /\ UNCHANGED <<result, ctx, content, newContent, section, entry>>
       ELSE /\ gor' = [gor EXCEPT ![c] = "failed"]
            /\ UNCHANGED lockHolder
            /\ IF pc[c] = "blocked"
               THEN Return(c, "lockerr")
               ELSE UNCHANGED <<pc, result, ctx, content, newContent, section, entry>>
    /\ UNCHANGED <<got, ini, pool, file, tmp, unlockErr>>

\* fl.Unlock() of the Flock of caller c: nothing when that Flock is not
\* locked; ok is whether the release succeeds
FlockUnlock(c, ok) ==
    IF lockHolder = c /\ ok
    THEN lockHolder' = 0 /\ gor' = [gor EXCEPT ![c] = "unlocked"]
    ELSE UNCHANGED <<lockHolder, gor>>

\* case <-ctx.Done(): fl.Unlock(); return nil, ctx.Err().  fl.Unlock() waits
\* for the mutex of the Flock.
Abort(c, ok) ==
    /\ pc[c] = "abort"
    /\ gor[c] # "inlock"
    /\ FlockUnlock(c, ok)
    /\ Return(c, "ctxerr")
    /\ UNCHANGED <<got, ini, pool, file, tmp, unlockErr>>

\* Unlock as it would be without the defer: the lock is released on the
\* success path only
UnlockOnSuccess(c, ok) ==
    /\ pc[c] = "unlock"
    /\ IF result[c] = "ok"
       THEN /\ FlockUnlock(c, ok)
            /\ unlockErr' = [unlockErr EXCEPT ![c] = ~ok]
       ELSE UNCHANGED <<lockHolder, gor, unlockErr>>
    /\ Return(c, result[c])
    /\ UNCHANGED <<got, ini, pool, file, tmp>>

\* The deferred unlock of AppendEntry and its return; a failure of unlock is
\* logged and the result kept
Unlock(c, ok) ==
    /\ pc[c] = "unlock"
    /\ FlockUnlock(c, ok)
    /\ unlockErr' = [unlockErr EXCEPT ![c] = ~ok]
    /\ Return(c, result[c])
    /\ UNCHANGED <<got, ini, pool, file, tmp>>

\* readFile
readFile == IF file.exists THEN file.data ELSE <<>>

\* AppendEntry from "Read current content" on as it would be if it looked at
\* ctx.Err() before it read
ReadAndSpliceChecked(c, readOk) ==
    /\ pc[c] = "read"
    /\ IF ctx[c] # "live"
       THEN /\ result' = [result EXCEPT ![c] = "ctxerr"]
            /\ pc' = [pc EXCEPT ![c] = "unlock"]
            /\ UNCHANGED <<content, newContent>>
       ELSE IF ~readOk
       THEN /\ result' = [result EXCEPT ![c] = "readerr"]
            /\ pc' = [pc EXCEPT ![c] = "unlock"]
            /\ UNCHANGED <<content, newContent>>
       ELSE /\ content' = [content EXCEPT ![c] = readFile]
            /\ LET plan == AppendPlan(readFile, section[c], entry[c],
                                       entry[c].CreatedAt)
               IN  IF ~plan.found
                   THEN /\ result' = [result EXCEPT ![c] = "notfound"]
                        /\ pc' = [pc EXCEPT ![c] = "unlock"]
                        /\ UNCHANGED newContent
                   ELSE /\ newContent' = [newContent EXCEPT ![c] = plan.newContent]
                        /\ pc' = [pc EXCEPT ![c] = "write"]
                        /\ UNCHANGED result
    /\ UNCHANGED <<got, ini, pool, file, tmp, lockHolder, gor, ctx, section, entry,
                   unlockErr>>

\* AppendEntry from "Read current content" to "Build new content"
ReadAndSplice(c, readOk) ==
    /\ pc[c] = "read"
    /\ IF ~readOk
       THEN /\ result' = [result EXCEPT ![c] = "readerr"]
            /\ pc' = [pc EXCEPT ![c] = "unlock"]
            /\ UNCHANGED <<content, newContent>>
       ELSE /\ content' = [content EXCEPT ![c] = readFile]
            /\ LET plan == AppendPlan(readFile, section[c], entry[c],
                                       entry[c].CreatedAt)
               IN  IF ~plan.found
                   THEN /\ result' = [result EXCEPT ![c] = "notfound"]
                        /\ pc' = [pc EXCEPT ![c] = "unlock"]
                        /\ UNCHANGED newContent
                   ELSE /\ newContent' = [newContent EXCEPT ![c] = plan.newContent]
                        /\ pc' = [pc EXCEPT ![c] = "write"]
                        /\ UNCHANGED result
    /\ UNCHANGED <<got, ini, pool, file, tmp, lockHolder, gor, ctx, section, entry,
                   unlockErr>>

\* How much of the data os.WriteFile may have written when it is observed
\* half-way: the write is not atomic
Cuts(s) == {Len(s) \div 2, Len(s) - 1}

\* WriteOpen as it would be when writing to FilePath() itself
WriteOpenInPlace(c, ok) ==
    /\ pc[c] = "write"
    /\ IF ok
       THEN /\ file' = [exists |-> TRUE, data |-> <<>>]
            /\ pc' = [pc EXCEPT ![c] = "writing"]
            /\ UNCHANGED result
       ELSE /\ UNCHANGED file
            /\ result' = [result EXCEPT ![c] = "writeerr"]
            /\ pc' = [pc EXCEPT ![c] = "unlock"]
    /\ UNCHANGED <<got, ini, pool, tmp, lockHolder, gor, ctx, section, entry, content,
                   newContent, unlockErr>>

\* atomicWrite, os.WriteFile(tmpPath): the temporary file is created or
\* truncated; on failure it is removed and the error returned
WriteOpen(c, ok) ==
    /\ pc[c] = "write"
    /\ IF ok
       THEN /\ tmp' = [exists |-> TRUE, data |-> <<>>]
            /\ pc' = [pc EXCEPT ![c] = "writing"]
            /\ UNCHANGED result
       ELSE /\ tmp' = Absent
            /\ result' = [result EXCEPT ![c] = "writeerr"]
            /\ pc' = [pc EXCEPT ![c] = "unlock"]
    /\ UNCHANGED <<got, ini, pool, file, lockHolder, gor, ctx, section, entry, content,
                   newContent, unlockErr>>

\* atomicWrite, os.WriteFile(tmpPath): part of the data reaches the file
WritePart(c, k) ==
    /\ pc[c] = "writing"
    /\ k \in Cuts(newContent[c])
    /\ k > Len(tmp.data)
    /\ tmp' = [exists |-> TRUE, data |-> SubSeq(newContent[c], 1, k)]
    /\ UNCHANGED <<got, ini, pool, file, lockHolder, pc, gor, ctx, section, entry,
                   content, newContent, result, unlockErr>>

\* atomicWrite, os.WriteFile(tmpPath) returns: all data written, or an error
\* after which the temporary file is removed
WriteEnd(c, ok) ==
    /\ pc[c] = "writing"
    /\ IF ok
       THEN /\ tmp' = [exists |-> TRUE, data |-> newContent[c]]
            /\ pc' = [pc EXCEPT ![c] = "rename"]
            /\ UNCHANGED result
       ELSE /\ tmp' = Absent
            /\ result' = [result EXCEPT ![c] = "writeerr"]
            /\ pc' = [pc EXCEPT ![c] = "unlock"]
    /\ UNCHANGED <<got, ini, pool, file, lockHolder, gor, ctx, section, entry, content,
                   newContent, unlockErr>>

\* Rename as it would be without the os.Remove of the failure path
RenameNoCleanup(c, ok) ==
    /\ pc[c] = "rename"
    /\ IF ok
       THEN /\ file' = tmp
            /\ tmp' = Absent
            /\ result' = [result EXCEPT ![c] = "ok"]
       ELSE /\ result' = [result EXCEPT ![c] = "renameerr"]
            /\ UNCHANGED <<file, tmp>>
    /\ pc' = [pc EXCEPT ![c] = "unlock"]
    /\ UNCHANGED <<got, ini, pool, lockHolder, gor, ctx, section, entry, content,
                   newContent, unlockErr>>

\* atomicWrite, os.Rename(tmpPath, FilePath()) and the return of AppendEntry
\* up to its deferred unlock
Rename(c, ok) ==
    /\ pc[c] = "rename"
    /\ IF ok
       THEN /\ file' = tmp
            /\ tmp' = Absent
            /\ result' = [result EXCEPT ![c] = "ok"]
       ELSE /\ tmp' = Absent
            /\ result' = [result EXCEPT ![c] = "renameerr"]
            /\ UNCHANGED file
    /\ pc' = [pc EXCEPT ![c] = "unlock"]
    /\ UNCHANGED <<got, ini, pool, lockHolder, gor, ctx, section, entry, content,
                   newContent, unlockErr>>

\* The process of caller c dies in the middle of a call: the operating system
\* closes its lock file, the files stay as they are
Crash(c) ==
    /\ Running(c)
    /\ pc' = [pc EXCEPT ![c] = "crashed"]
    /\ gor' = [gor EXCEPT ![c] = "dead"]
    /\ ctx' = [ctx EXCEPT ![c] = "none"]
    /\ content' = [content EXCEPT ![c] = <<>>]
    /\ newContent' = [newContent EXCEPT ![c] = <<>>]
    /\ lockHolder' = IF lockHolder = c THEN 0 ELSE lockHolder
    /\ UNCHANGED <<got, ini, pool, file, tmp, section, entry, result, unlockErr>>

Next ==
    \/ \E c \in Callers, input \in pool, idOk \in BOOLEAN, dirOk \in BOOLEAN :
          Capture(c, input, idOk, dirOk)
    \/ \E c \in Callers : Cancel(c)
    \/ \E c \in Callers, takeDone \in BOOLEAN : Select(c, takeDone)
    \/ \E c \in Callers : GoEnter(c)
    \/ \E c \in Callers, ok \in BOOLEAN : GoLock(c, ok)
    \/ \E c \in Callers, ok \in BOOLEAN : Abort(c, ok)
    \/ \E c \in Callers, readOk \in BOOLEAN : ReadAndSplice(c, readOk)
    \/ \E c \in Callers, ok \in BOOLEAN : WriteOpen(c, ok)
    \/ \E c \in Callers, k \in 1..200 : WritePart(c, k)
    \/ \E c \in Callers, ok \in BOOLEAN : WriteEnd(c, ok)
    \/ \E c \in Callers, ok \in BOOLEAN : Rename(c, ok)
    \/ \E c \in Callers, ok \in BOOLEAN : Unlock(c, ok)
    \/ \E c \in Callers : Crash(c)

\* Concurrent callers sending the requests of Inputs
Spec == Init /\ [][Next]_vars

\* Concurrent callers sending plain requests
SpecLock == InitLock /\ [][Next]_vars

\* One request that ValidateInput accepts and one for each reason it has to
\* reject a request
RejectInputs ==
    {[Category |-> SectionConstraints, Tag |-> <<"x">>, Content |-> <<"x">>,
      Rationale |-> <<>>, Now |-> t] : t \in Times}
        \cup [Category : {<<"x">>}, Tag : {<<"x">>}, Content : {<<"x">>},
              Rationale : {<<>>}, Now : Times]
        \cup [Category : {SectionConstraints}, Tag : {<<>>}, Content : {<<"x">>},
              Rationale : {<<>>}, Now : Times]
        \cup [Category : {SectionConstraints}, Tag : {<<"x">>},
              Content : {<<>>, <<"x", "<">>, <<"- ", "x">>},
              Rationale : {<<>>}, Now : Times]

\* Every caller sends the same request, one of RejectInputs
InitReject == \E input \in RejectInputs : InitWith({input})

\* Concurrent calls that all send one request
SpecReject == InitReject /\ [][Next]_vars

\* ------------------------------------------------ one request at a time
\* The requests of the sequential runs
SeqInputs ==
    [Category : {SectionConstraints, SectionDecisions, SectionPatterns,
                 SectionAntiPatterns},
     Tag : {<<"x">>},
     Content : {<<"x">>, <<"x", HASHES, "D", "ecisions">>,
                <<"x", HASHES, "P", "atterns">>},
     Rationale : {<<>>, <<"y">>},
     Now : Times]

InitSeq == InitWith(SeqInputs)

\* What can go wrong in a call apart from its input
Faults ==
    {"none", "iderr", "mkdirerr", "ctxerr", "lockerr", "readerr", "writeerr",
     "renameerr"}

\* handleCaptureMemory from entry to return with no other call in between:
\* Capture, the lock, ReadAndSplice, atomicWrite and Unlock in one step.
\* Callers take their turns in order.
CaptureSeq(c, input, fault, unlockOk) ==
    /\ pc[c] = "idle"
    /\ \A d \in Callers : d < c => pc[d] = "done"
    /\ lockHolder = 0
    /\ LET e == PrepareEntry(input, NewV7(c), input.Now)
           plan == AppendPlan(readFile, input.Category, e, input.Now)
           valid == ValidateInput(input) = "ok"
           locked == valid /\ fault \notin {"iderr", "mkdirerr", "ctxerr", "lockerr"}
           r == IF ~valid THEN ValidateInput(input)
                ELSE IF fault \in {"iderr", "mkdirerr", "ctxerr", "lockerr", "readerr"}
                THEN fault
                ELSE IF ~plan.found THEN "notfound"
                ELSE IF fault \in {"writeerr", "renameerr"} THEN fault
                ELSE "ok"
       IN  /\ ReturnWith(c, r, input.Category, e)
           /\ file' = IF r = "ok"
                      THEN [exists |-> TRUE, data |-> plan.newContent]
                      ELSE file
           /\ IF locked /\ ~unlockOk
              THEN /\ lockHolder' = c
                   /\ gor' = [gor EXCEPT ![c] = "held"]
                   /\ unlockErr' = [unlockErr EXCEPT ![c] = TRUE]
              ELSE UNCHANGED <<lockHolder, gor, unlockErr>>
    /\ got' = NoRead
    /\ UNCHANGED <<ini, pool, tmp>>

NextSeq ==
    \E c \in Callers, input \in pool, fault \in Faults, unlockOk \in BOOLEAN :
       CaptureSeq(c, input, fault, unlockOk)

\* Callers sending the requests of SeqInputs one after the other
SpecSeq == InitSeq /\ [][NextSeq]_vars

\* Requests that leave the category out, name the default or name a section
CatInputs ==
    [Category : {<<>>, SectionNote, SectionConstraints},
     Tag : {<<"x">>},
     Content : {<<"x">>},
     Rationale : {<<>>, <<"y">>},
     Now : Times]

InitCat == InitWith(CatInputs)

\* Callers sending the requests of CatInputs one after the other
SpecCat == InitCat /\ [][NextSeq]_vars

\* ---------------------------------------------------- one request, any text
\* The atoms a content is made of here: plain text, white space, the
\* forbidden sequences, the list-item markers and "## "
ContentAtoms ==
    {"x", SP, "\t", NL, "\r", "<", ">", FENCE, "###", "- ", "* ", HASHES}

MaxContentAtoms == 2

\* Contents of up to MaxContentAtoms atoms, and list items behind two spaces
ContentSamples ==
    UNION {[1..n -> ContentAtoms] : n \in 1..MaxContentAtoms}
        \cup {<<SP, "\t", "- ">>, <<SP, SP, "* ", "x">>}

ContentInputs ==
    [Category : {SectionConstraints}, Tag : {<<"x">>}, Content : ContentSamples,
     Rationale : {<<>>}, Now : Times]

InitContent == \E input \in ContentInputs : InitWith({input})

\* Callers sending one request of ContentInputs one after the other
SpecContent == InitContent /\ [][NextSeq]_vars

\* ------------------------------------------------ one request, any length
\* Tags, contents and rationales at and around the limits, in one-byte and in
\* two-byte characters
LenInputs ==
    [Category : {SectionConstraints},
     Tag : {<<>>, <<"x">>, <<"x*49", "x">>, <<"x*49", "x", "x">>,
            <<"U+00E9*25">>, <<"U+00E9*25", "U+00E9">>},
     Content : {<<>>, <<"x">>, <<"x*1999", "x">>, <<"x*1999", "x", "x">>,
                <<"x*1999", "U+00E9">>},
     Rationale : {<<>>, <<"x*499", "y">>, <<"x*499", "y", "y">>},
     Now : Times]

InitLen == \E input \in LenInputs : InitWith({input})

\* Callers sending one request of LenInputs one after the other
SpecLen == InitLen /\ [][NextSeq]_vars

\* --------------------------------------------------- one request, any tag
\* Tags bare, bracketed, with a bracket on one side only, doubly bracketed,
\* of brackets only and of two lines; rationales of one and of two lines
TagInputs ==
    [Category : {SectionConstraints, SectionDecisions},
     Tag : {<<"x">>, <<LB, "x", RB>>, <<LB, "x">>, <<"x", RB>>,
            <<LB, LB, "x", RB, RB>>, <<LB, RB>>, <<"x", NL, HASHES, "x">>},
     Content : {<<"x">>},
     Rationale : {<<>>, <<"y">>, <<"y", NL, HASHES, "y">>},
     Now : Times]

InitTag == \E input \in TagInputs : InitWith({input})

\* Callers sending one request of TagInputs one after the other
SpecTag == InitTag /\ [][NextSeq]_vars

\* ------------------------------------------------- reads and ohmymem init
\* A legacy inline entry line as templates and older files hold it
LegacyLine(t) ==
    <<L_STAR>> \o t.TagName \o <<L_TAGEND>> \o t.Content
        \o (IF t.Rationale # <<>>
            THEN <<L_RAT, SP>> \o t.Rationale \o <<L_RATEND>> ELSE <<>>)

\* What the legacy lines of the model say
LegacyTexts ==
    {[TagName |-> <<"x">>, Content |-> <<"x">>, Rationale |-> <<>>],
     [TagName |-> <<"x">>, Content |-> <<"y">>, Rationale |-> <<"y">>]}

\* Blocks of one or two legacy lines
LegacySeqs ==
    {<<t>> : t \in LegacyTexts}
        \cup {<<t, u>> : t \in {u \in LegacyTexts : u.Rationale = <<>>},
                         u \in {u \in LegacyTexts : u.Rationale # <<>>}}

\* The lines of ls joined by newlines
RECURSIVE LegacyBlock(_)
LegacyBlock(ls) ==
    IF Len(ls) = 1 THEN LegacyLine(ls[1])
    ELSE LegacyLine(Head(ls)) \o <<NL>> \o LegacyBlock(Tail(ls))

\* template.MemoryFiles of the templates a project may be initialized from:
\* no file, one file of legacy lines, one file of free text
Templates ==
    {<<>>}
        \cup {<<[Category |-> SectionConstraints, Content |-> LegacyBlock(ls)]>> :
                 ls \in LegacySeqs}
        \cup {<<[Category |-> SectionPatterns, Content |-> <<"x">>]>>}

\* mapCategoryToSection
mapCategoryToSection(category) ==
    CASE category = SectionConstraints -> <<"C", "onstraints">>
      [] category = SectionDecisions -> <<"D", "ecisions">>
      [] category = SectionPatterns -> <<"P", "atterns">>
      [] category = SectionAntiPatterns -> <<"A", "nti-", "P", "atterns">>
      [] OTHER -> <<"C", "onstraints">>

\* generateMemoryContent, "Write sections in order": the section names
SectionNames ==
    << <<"C", "onstraints">>, <<"D", "ecisions">>, <<"P", "atterns">>,
       <<"A", "nti-", "P", "atterns">> >>

\* generateMemoryContent: the contents collected for one section, each
\* followed by a newline
RECURSIVE SectionContents(_, _)
SectionContents(files, sectionName) ==
    IF files = <<>> THEN <<>>
    ELSE (IF mapCategoryToSection(Head(files).Category) = sectionName
          THEN Head(files).Content \o <<NL>> ELSE <<>>)
             \o SectionContents(Tail(files), sectionName)

\* generateMemoryContent, "Write sections in order"
RECURSIVE WriteSections(_, _)
WriteSections(files, names) ==
    IF names = <<>> THEN <<>>
    ELSE <<HASHES>> \o Head(names) \o <<NL, NL>>
             \o SectionContents(files, Head(names))
             \o WriteSections(files, Tail(names))

\* generateMemoryContent for a project whose stack was not detected
generateMemoryContent(files) ==
    <<"---", NL, "schema_version: \"0.1\"", NL, "entry_format: \"anchored\"", NL,
      "generated_by: \"ohmymem init\"", NL, "---", NL, NL>>
        \o WriteSections(files, SectionNames)

\* InitUseCase.Execute, steps 1 to 3: the check for an existing memory.md and
\* the generation of the content from the fetched template
InitCheck(files, force, ok) ==
    /\ ini.pc = "idle"
    /\ ini' = IF file.exists /\ ~force THEN [pc |-> "refused", content |-> <<>>]
              ELSE IF ~ok THEN [pc |-> "failed", content |-> <<>>]
              ELSE [pc |-> "generated", content |-> generateMemoryContent(files)]
    /\ got' = NoRead
    /\ UNCHANGED <<pool, file, tmp, lockHolder, pc, gor, ctx, section,
                   entry, content, newContent, result, unlockErr>>

\* InitUseCase.Execute, steps 4 and 5: MkdirAll, and os.WriteFile(memoryPath)
\* creating or truncating the file
InitOpen(ok) ==
    /\ ini.pc = "generated"
    /\ IF ok
       THEN /\ file' = [exists |-> TRUE, data |-> <<>>]
            /\ ini' = [ini EXCEPT !.pc = "writing"]
       ELSE /\ ini' = [pc |-> "failed", content |-> <<>>]
            /\ UNCHANGED file
    /\ got' = NoRead
    /\ UNCHANGED <<pool, tmp, lockHolder, pc, gor, ctx, section, entry,
                   content, newContent, result, unlockErr>>

\* InitUseCase.Execute, step 5: os.WriteFile(memoryPath) writes the content
\* and returns; on failure part of it has been written
InitWrite(ok) ==
    /\ ini.pc = "writing"
    /\ file' = [exists |-> TRUE,
                data |-> IF ok THEN ini.content
                         ELSE SubSeq(ini.content, 1, Len(ini.content) \div 2)]
    /\ ini' = [pc |-> IF ok THEN "done" ELSE "failed", content |-> <<>>]
    /\ got' = NoRead
    /\ UNCHANGED <<pool, tmp, lockHolder, pc, gor, ctx, section, entry,
                   content, newContent, result, unlockErr>>

\* ReadAll as it would be if it opened memory.md with O_CREATE
ReadAllCreating(readOk) ==
    /\ got' = [op |-> "ReadAll", n |-> 1 - got.n, fault |-> ~readOk,
               err |-> ~readOk,
               text |-> IF readOk THEN readFile ELSE <<>>,
               Type |-> <<>>, entries |-> <<>>, warn |-> FALSE]
    /\ file' = [exists |-> TRUE, data |-> readFile]
    /\ UNCHANGED <<ini, pool, tmp, lockHolder, pc, gor, ctx, section,
                   entry, content, newContent, result, unlockErr>>

\* ReadAll as it would be if readFile passed a missing file on as an error
ReadAllStrict(readOk) ==
    /\ got' = [op |-> "ReadAll", n |-> 1 - got.n, fault |-> ~readOk,
               err |-> ~readOk \/ ~file.exists,
               text |-> IF readOk THEN readFile ELSE <<>>,
               Type |-> <<>>, entries |-> <<>>, warn |-> FALSE]
    /\ UNCHANGED <<ini, pool, file, tmp, lockHolder, pc, gor, ctx, section,
                   entry, content, newContent, result, unlockErr>>

\* ReadAll.  got is what the last operation returned if it was a read; fault
\* says whether EnsureDir or os.ReadFile met an error other than a missing
\* file.
ReadAllOp(readOk) ==
    /\ got' = [op |-> "ReadAll", n |-> 1 - got.n, fault |-> ~readOk,
               err |-> ~readOk,
               text |-> IF readOk THEN readFile ELSE <<>>,
               Type |-> <<>>, entries |-> <<>>, warn |-> FALSE]
    /\ UNCHANGED <<ini, pool, file, tmp, lockHolder, pc, gor, ctx, section,
                   entry, content, newContent, result, unlockErr>>

\* GetSection as it would be if readFile passed a missing file on as an error
GetSectionOpStrict(sectionType, readOk) ==
    /\ got' = [op |-> "GetSection", n |-> 1 - got.n, fault |-> ~readOk,
               err |-> ~readOk \/ ~file.exists,
               text |-> <<>>,
               Type |-> IF readOk /\ file.exists THEN sectionType ELSE <<>>,
               entries |-> IF readOk
                           THEN GetSection(readFile, sectionType).entries
                           ELSE <<>>,
               warn |-> readOk /\ GetSection(readFile, sectionType).warn]
    /\ UNCHANGED <<ini, pool, file, tmp, lockHolder, pc, gor, ctx, section,
                   entry, content, newContent, result, unlockErr>>

\* GetSection
GetSectionOp(sectionType, readOk) ==
    /\ got' = [op |-> "GetSection", n |-> 1 - got.n, fault |-> ~readOk,
               err |-> ~readOk,
               text |-> <<>>,
               Type |-> IF readOk THEN sectionType ELSE <<>>,
               entries |-> IF readOk
                           THEN GetSection(readFile, sectionType).entries
                           ELSE <<>>,
               warn |-> readOk /\ GetSection(readFile, sectionType).warn]
    /\ UNCHANGED <<ini, pool, file, tmp, lockHolder, pc, gor, ctx, section,
                   entry, content, newContent, result, unlockErr>>

\* Appends one after the other, reads, and one run of ohmymem init
NextRead ==
    \/ \E c \in Callers, input \in pool, fault \in Faults, unlockOk \in BOOLEAN :
          CaptureSeq(c, input, fault, unlockOk)
    \/ \E readOk \in BOOLEAN : ReadAllOp(readOk)
    \/ \E s \in {SectionConstraints, SectionDecisions, SectionPatterns,
                 SectionAntiPatterns}, readOk \in BOOLEAN : GetSectionOp(s, readOk)
    \/ \E files \in Templates, force \in BOOLEAN, ok \in BOOLEAN :
          InitCheck(files, force, ok)
    \/ \E ok \in BOOLEAN : InitOpen(ok)
    \/ \E ok \in BOOLEAN : InitWrite(ok)

SpecRead == InitLock /\ [][NextRead]_vars

\* Concurrent appends and one run of ohmymem init
NextInit ==
    \/ Next
    \/ \E files \in Templates, force \in BOOLEAN, ok \in BOOLEAN :
          InitCheck(files, force, ok)
    \/ \E ok \in BOOLEAN : InitOpen(ok)
    \/ \E ok \in BOOLEAN : InitWrite(ok)

SpecInit == InitLock /\ [][NextInit]_vars

\* ================================================================ properties
\* Caller c is between lock acquisition and lock release
InCritical(c) == pc[c] \in {"read", "write", "writing", "rename", "unlock"}

\* The results of calls that returned after they had acquired the lock
AfterLock == {"ok", "readerr", "notfound", "writeerr", "renameerr"}

\* Offsets at which a line of document d begins
LineStarts(d) == {0} \cup {i \in 1..Len(d) : d[i] = NL}

\* Offset of the first heading line "## <name>" of d, -1 if there is none
HeadingLine(d, name) ==
    LET hits == {o \in LineStarts(d) :
                   \/ SliceFrom(d, o) = <<HASHES>> \o name
                   \/ HasPrefix(SliceFrom(d, o), <<HASHES>> \o name \o <<NL>>)}
    IN  IF hits = {} THEN -1 ELSE Min(hits)

\* Offset of the next line after offset o of d that begins with "## ", the
\* end of d if there is none
NextHeading(d, o) ==
    LET hits == {q \in LineStarts(d) :
                   q > o /\ HasPrefix(SliceFrom(d, q), <<HASHES>>)}
    IN  IF hits = {} THEN Len(d) ELSE Min(hits)

\* The lines of d that begin with "## ", in order
HeadingLines(d) ==
    SelectSeq(SplitLines(d), LAMBDA l : HasPrefix(l, <<HASHES>>))

\* The block rendered for entry e lies inside the section of d headed name
InsideSection(d, name, e) ==
    LET h == HeadingLine(d, name)
        at == Index(d, renderEntry(e))
    IN  /\ h # -1
        /\ at > h
        /\ at + Len(renderEntry(e)) <= NextHeading(d, h)

\* Entries a and b agree in every field, the time to the precision of the
\* timestamp format
SameEntry(a, b) ==
    /\ a.ID = b.ID
    /\ a.Tag = b.Tag
    /\ a.TagName = b.TagName
    /\ a.Content = b.Content
    /\ a.Rationale = b.Rationale
    /\ FormatRFC3339(a.CreatedAt) = FormatRFC3339(b.CreatedAt)

\* Caller c returns from its call in this step
Returns(c) == pc[c] # "done" /\ pc'[c] = "done"

\* C1: when concurrent calls with distinct entries have all returned success,
\* the document holds the rendered block of each of them, whole and in one
\* piece.
C1_NoLostUpdate ==
    (\A c \in Callers : pc[c] = "done" /\ result[c] = "ok")
        => \A c \in Callers : Contains(readFile, renderEntry(entry[c]))

\* C2: at most one call is between lock acquisition and lock release, and
\* that call is the holder of the lock.
C2_MutualExclusion ==
    /\ \A c, d \in Callers : InCritical(c) /\ InCritical(d) => c = d
    /\ \A c \in Callers : InCritical(c) => lockHolder = c

\* C2 witness: one call is writing while another waits inside fl.Lock()
C2_Contended ==
    \E c, d \in Callers :
        /\ c # d
        /\ pc[c] = "writing"
        /\ pc[d] = "blocked"
        /\ gor[d] = "inlock"

\* C3: the data file only ever changes in the rename of a call that holds the
\* lock, from the document that call read (or from no file) to the complete
\* document that call built; no other step, a crash included, touches it.
C3_AllOrNothing ==
    [][file' # file =>
         \E c \in Callers :
             /\ pc[c] = "rename"
             /\ lockHolder = c
             /\ content[c] = readFile
             /\ newContent[c] = AppendPlan(content[c], section[c], entry[c],
                                           entry[c].CreatedAt).newContent
             /\ file' = [exists |-> TRUE, data |-> newContent[c]]]_vars

\* C3 witness: a second append is half-way through writing the temporary file
\* while the data file holds the whole document of the first
C3_HalfWritten ==
    \E c \in Callers :
        /\ pc[c] = "writing"
        /\ file.exists
        /\ file.data = content[c]
        /\ tmp.exists
        /\ tmp.data # <<>>
        /\ tmp.data # newContent[c]

\* C4: a block that a successful append persisted is still in the document,
\* in one piece, after every later call made with accepted input.
C4_AppendOnly ==
    [][\A c \in Callers :
          (result[c] = "ok" /\ Contains(readFile, renderEntry(entry[c])))
              => Contains(readFile', renderEntry(entry[c]))]_vars

\* C5: a successful append to a document whose heading line is present yields
\* the old document with the rendered entry and one newline inserted at the
\* end of that section, the offset of the next line that begins with "## ";
\* everything before and after is unchanged.
C5_FrameAtSectionEnd ==
    [][\A c \in Callers :
          LET name == capitalize(section'[c])
              h == HeadingLine(file.data, name)
              e == NextHeading(file.data, h)
          IN  (Returns(c) /\ result'[c] = "ok" /\ file.exists /\ h # -1)
                  => file'.data = Slice(file.data, 0, e)
                                      \o renderEntry(entry'[c]) \o <<NL>>
                                      \o SliceFrom(file.data, e)]_vars

\* C6: right after a successful append of entry E, GetSection on the section
\* appended to returns an entry equal to E in id, tag, tagName, content,
\* rationale and createdAt.
C6_RoundTrip ==
    [][\A c \in Callers :
          (Returns(c) /\ result'[c] = "ok")
              => LET es == GetSection(readFile', section'[c]).entries
                 IN  \E j \in 1..Len(es) : SameEntry(es[j], entry'[c])]_vars

\* C7: with no file and nothing failing underneath, an append to any of the
\* four sections succeeds and leaves front matter with a schema_version key,
\* exactly the four headings in order and the entry inside its section.
C7_EmptyDocumentSynthesis ==
    [][\A c \in Callers :
          (Returns(c) /\ ~file.exists /\ result'[c] \in {"ok", "notfound"})
              => /\ result'[c] = "ok"
                 /\ HasPrefix(file'.data, <<"---", NL, "schema_version: \"0.1\"", NL>>)
                 /\ HeadingLines(file'.data)
                        = << <<HASHES, "C", "onstraints">>,
                             <<HASHES, "D", "ecisions">>,
                             <<HASHES, "P", "atterns">>,
                             <<HASHES, "A", "nti-", "P", "atterns">> >>
                 /\ InsideSection(file'.data, capitalize(section'[c]),
                                  entry'[c])]_vars

\* C8: the acquisition abandoned by a call that returned because its context
\* was cancelled while it waited for the lock does not obtain the lock after
\* that return.
C8_NoLockLeftBehind ==
    [][\A c \in Callers :
          (pc[c] = "done" /\ result[c] = "ctxerr" /\ lockHolder # c)
              => lockHolder' # c]_vars

\* C9: a call whose context was cancelled before the lock was obtained does
\* not go on to read, build or persist the document: it has not appended.
C9_CancelledBeforeLock ==
    \A c \in Callers :
        ctx[c] = "early"
            => /\ pc[c] \notin {"read", "write", "writing", "rename"}
               /\ result[c] # "ok"

\* C10 as stated: a call that had acquired the lock and returned, with
\* whatever result, no longer holds the lock.
C10_AlwaysReleased ==
    \A c \in Callers :
        (pc[c] = "done" /\ result[c] \in AfterLock) => lockHolder # c

\* C10 amended: when a call that had acquired the lock returns, its result is
\* the one it had before the unlock, and the lock is no longer held by it
\* unless the unlock itself failed, which was then logged.
C10_ReleasedOrLogged ==
    [][\A c \in Callers :
          (pc[c] = "unlock" /\ pc'[c] = "done")
              => /\ result'[c] = result[c]
                 /\ result'[c] \in AfterLock
                 /\ lockHolder' # c \/ unlockErr'[c]]_vars

\* C10 witness: a call failed after it had acquired the lock, returned without
\* an unlock failure, and another call now holds the lock
C10_ReleasedAfterFailure ==
    \E c, d \in Callers :
        /\ c # d
        /\ pc[c] = "done"
        /\ result[c] \in {"readerr", "notfound", "writeerr", "renameerr"}
        /\ ~unlockErr[c]
        /\ lockHolder = d
        /\ InCritical(d)

\* Caller c returns from a successful append in this step
Appended(c) == Returns(c) /\ result'[c] = "ok"

\* The ids of a sequence of entries, in order
Ids(es) == [j \in 1..Len(es) |-> es[j].ID]

\* The four sections of the document
FourSections ==
    {SectionConstraints, SectionDecisions, SectionPatterns, SectionAntiPatterns}

\* C11: after a successful append the new block, with its newline, is the last
\* thing of its section, directly before the next heading line or the end of
\* the document, and GetSection returns the entries it returned before
\* followed by the new one.
C11_AppendOrder ==
    [][\A c \in Callers :
          Appended(c)
              => LET d == file'.data
                     h == HeadingLine(d, capitalize(section'[c]))
                     e == NextHeading(d, h)
                     r == renderEntry(entry'[c]) \o <<NL>>
                 IN  /\ h # -1
                     /\ e >= Len(r)
                     /\ Slice(d, e - Len(r), e) = r
                     /\ Ids(GetSection(d, section'[c]).entries)
                          = Ids(GetSection(readFile, section'[c]).entries)
                                \o <<entry'[c].ID>>]_vars

\* C12: a successful append to a section makes GetSection of that section
\* return exactly one entry more, and the last entry returned has the tag of
\* the entry appended.
C12_CountGrowsByOne ==
    [][\A c \in Callers :
          Appended(c)
              => LET old == GetSection(readFile, section'[c]).entries
                     new == GetSection(readFile', section'[c]).entries
                 IN  /\ Len(new) = Len(old) + 1
                     /\ new[Len(new)].Tag = entry'[c].Tag]_vars

\* C13: a successful append to one section leaves what GetSection returns for
\* each of the other three sections as it was.
C13_SectionIsolation ==
    [][\A c \in Callers :
          Appended(c)
              => \A s \in FourSections \ {section'[c]} :
                    GetSection(readFile', s).entries
                        = GetSection(readFile, s).entries]_vars

\* C14: an append for a section whose capitalized heading is not in the
\* document (read, or just synthesized) ends with section-not-found and only
\* then; from the lookup to its return the call leaves the data file and the
\* temporary file as they were, so no file is created and no heading added.
C14_SectionNotFound ==
    [][\A c \in Callers :
          LET doc == IF readFile = <<>>
                     THEN createInitialContent(entry[c].CreatedAt) ELSE readFile
              absent == ~Contains(doc, <<HASHES>> \o capitalize(section[c]))
          IN  /\ (pc[c] = "read" /\ pc'[c] \in {"write", "unlock"}
                    /\ result'[c] # "readerr")
                    => /\ absent <=> (result'[c] = "notfound")
                       /\ absent => (pc'[c] = "unlock" /\ file' = file /\ tmp' = tmp)
              /\ (pc[c] = "unlock" /\ result[c] = "notfound")
                    => /\ file' = file
                       /\ tmp' = tmp
                       /\ (pc'[c] = "done") => (result'[c] = "notfound")]_vars

\* C14 witness: a call returned section-not-found and there is still no file
C14_NotFoundNoFile ==
    \E c \in Callers :
        /\ pc[c] = "done"
        /\ result[c] = "notfound"
        /\ section[c] = SectionAntiPatterns
        /\ ~file.exists
        /\ ~tmp.exists

\* C15: when writing or renaming the temporary file fails, the call goes on to
\* return that error; the data file is left as it was, holding the document
\* the call had read, and the temporary file is gone by the time it returns.
C15_WriteFailure ==
    [][\A c \in Callers :
          /\ (pc[c] \in {"write", "writing", "rename"}
                /\ result'[c] \in {"writeerr", "renameerr"})
                => /\ file' = file
                   /\ readFile' = content[c]
                   /\ ~tmp'.exists
                   /\ pc'[c] = "unlock"
          /\ (pc[c] = "unlock" /\ result[c] \in {"writeerr", "renameerr"})
                => /\ file' = file
                   /\ ~tmp'.exists
                   /\ (pc'[c] = "done") => (result'[c] = result[c])]_vars

\* C15 witness: the rename of a second append has failed; the data file holds
\* the document committed by the first and there is no temporary file
C15_RenameFailed ==
    \E c \in Callers :
        /\ pc[c] = "unlock"
        /\ result[c] = "renameerr"
        /\ file.exists
        /\ file.data = content[c]
        /\ ~tmp.exists

\* C16: a request with an empty category that passed validation has the
\* storage outcome of the same request with category note on the same store:
\* it succeeds exactly when that one would, and writes the same document.
C16_DefaultCategory ==
    [][\A c \in Callers :
          (Returns(c) /\ result'[c] \in {"ok", "notfound"} /\ section'[c] = <<>>)
              => LET asNote == AppendPlan(readFile, SectionNote, entry'[c],
                                          entry'[c].CreatedAt)
                 IN  /\ (result'[c] = "ok") <=> asNote.found
                     /\ asNote.found => (file'.data = asNote.newContent)]_vars

\* The non-blank lines between the heading line "## <name>" of d and the next
\* heading line
SectionLines(d, name) ==
    LET h == HeadingLine(d, name)
    IN  IF h = -1 THEN <<>>
        ELSE SelectSeq(SplitLines(Slice(d, h + 1 + Len(name), NextHeading(d, h))),
                       LAMBDA l : l # <<>>)

\* The entry a legacy line saying t stands for
LegacyEntry(t) ==
    [ID |-> <<>>, Tag |-> <<LB>> \o t.TagName \o <<RB>>, TagName |-> t.TagName,
     Content |-> t.Content, Rationale |-> t.Rationale, CreatedAt |-> ZeroTime]

\* GetSection returns in this step, without a read error
Got == got'.op = "GetSection" /\ got' # got /\ ~got'.err

\* C17: when the lines of the requested section are legacy lines and nothing
\* else, GetSection returns one entry per line, in order, with empty id, zero
\* time and the tag, content and rationale written on the line, and the
\* legacy-format warning is logged.
C17_LegacyFallback ==
    [][Got =>
          \A ls \in LegacySeqs :
             (SectionLines(readFile, mapCategoryToSection(got'.Type))
                  = [j \in 1..Len(ls) |-> LegacyLine(ls[j])])
                 => /\ got'.entries = [j \in 1..Len(ls) |-> LegacyEntry(ls[j])]
                    /\ got'.warn]_vars

\* C18: every step that changes memory.md is taken by a call of AppendEntry
\* that holds the lock and is between its acquisition and its release.
C18_WritesUnderLock ==
    [][file' # file
          => \E c \in Callers : lockHolder = c /\ InCritical(c) /\ pc'[c] # pc[c]]_vars

\* ReadAll or GetSection returns in this step
Reads == got'.op # "none" /\ got' # got

\* ohmymem init creates or truncates memory.md in this step
InitOpens == ini.pc = "generated" /\ ini'.pc = "writing"

Missing(d, sectionType) ==
    \/ d = <<>>
    \/ HeadingLine(d, mapCategoryToSection(sectionType)) = -1
    \/ LET ls == SectionLines(d, mapCategoryToSection(sectionType))
       IN  \A j \in 1..Len(ls) : ~HasPrefix(ls[j], <<L_STAR>>)

C21_ReadAll ==
    [][(got'.op = "ReadAll" /\ got' # got /\ ~got'.fault)
          => /\ ~got'.err
             /\ ~file.exists => got'.text = <<>>
             /\ file.exists => got'.text = file.data]_vars

\* ReadAll has returned the text of a document that holds an entry
C21_ReadWhole ==
    /\ got.op = "ReadAll"
    /\ ~got.err
    /\ file.exists
    /\ got.text = file.data
    /\ \E c \in Callers : result[c] = "ok" /\ Contains(got.text, renderEntry(entry[c]))

\* The errors of ValidateInput
ValidationErrors ==
    {"ErrInvalidCategory", "ErrInvalidTag", "ErrInvalidContent",
     "ErrForbiddenContent", "ErrListItem", "ErrInvalidRationale"}

\* C22: a call whose request ValidateInput rejects returns the validation
\* error straight from its entry: no entry is prepared under a new id, the
\* lock goroutine of AppendEntry is not started, the lock is not taken and
\* memory.md and its temporary file are as they were; and a validation error
\* is returned by no other step.
C22_RejectedUntouched ==
    [][\A c \in Callers :
          /\ \A input \in pool :
                (ValidateInput(input) # "ok" /\ pc[c] = "idle" /\ pc'[c] # "idle")
                    => /\ pc'[c] = "done"
                       /\ result'[c] = ValidateInput(input)
                       /\ result'[c] \in ValidationErrors
                       /\ entry'[c] = NoEntry
                       /\ gor' = gor
                       /\ lockHolder' = lockHolder
                       /\ file' = file
                       /\ tmp' = tmp
          /\ (Returns(c) /\ result'[c] \in ValidationErrors) => pc[c] = "idle"]_vars

\* Both callers were turned away with a forbidden-content error and the store
\* is as it was before
C22_BothRejected ==
    /\ \A c \in Callers : pc[c] = "done" /\ result[c] = "ErrForbiddenContent"
    /\ file = Absent
    /\ tmp = Absent
    /\ lockHolder = 0

\* The content holds one of the sequences that must not occur in it
HasForbidden(text) ==
    \E i \in 1..Len(text) : text[i] \in {NL, "\r", "<", ">", FENCE, "###"}

\* The first thing of the content that is not white space is "- " or "* "
ListItemShaped(text) ==
    \E k \in 1..Len(text) :
       /\ text[k] \in {"- ", "* "}
       /\ \A j \in 1..(k - 1) : text[j] \in {SP, "\t", NL, "\r"}

CharsOf(a) ==
    CASE a = "U+00E9" -> 1
      [] a = "U+00E9*25" -> 25
      [] OTHER -> Width(a)

\* The length of a text in characters
RECURSIVE Chars(_)
Chars(text) == IF text = <<>> THEN 0 ELSE CharsOf(Head(text)) + Chars(Tail(text))

\* C24: a request is turned away with a tag error when its tag is empty or
\* longer than 50 characters, else with a content error when its content is
\* empty or longer than 2000 characters, else with a rationale error when its
\* rationale is longer than 500 characters, and gets past validation when tag,
\* content and rationale are of 1 to 50, 1 to 2000 and 0 to 500 characters.
C24_LengthLimits ==
    [][\A c \in Callers, input \in pool :
          Returns(c)
              => LET tagOk == Chars(input.Tag) \in 1..50
                     contentOk == Chars(input.Content) \in 1..2000
                     rationaleOk == Chars(input.Rationale) \in 0..500
                 IN  /\ ~tagOk => result'[c] = "ErrInvalidTag"
                     /\ (tagOk /\ ~contentOk) => result'[c] = "ErrInvalidContent"
                     /\ (tagOk /\ contentOk /\ ~rationaleOk)
                           => result'[c] = "ErrInvalidRationale"
                     /\ (tagOk /\ contentOk /\ rationaleOk)
                           => result'[c] \notin ValidationErrors]_vars

\* C25: whenever findSectionStart finds a section name in the document, the
\* offset it returns is the beginning of the first line that is the heading
\* "## <Name>".
C25_StartIsHeadingLine ==
    file.exists
        => \A s \in FourSections :
              LET start == findSectionStart(file.data, capitalize(s))
              IN  start # -1 => start = HeadingLine(file.data, capitalize(s))

\* C26: for every heading line of the document, findSectionEnd returns the
\* beginning of the next line that starts with "## ", or the length of the
\* document if there is none.
C26_EndIsLineStart ==
    file.exists
        => \A start \in LineStarts(file.data) :
              HasPrefix(SliceFrom(file.data, start), <<HASHES>>)
                  => findSectionEnd(file.data, start) = NextHeading(file.data, start)

\* The four heading lines of a document, in order
FourHeadings ==
    << <<HASHES, "C", "onstraints">>, <<HASHES, "D", "ecisions">>,
       <<HASHES, "P", "atterns">>, <<HASHES, "A", "nti-", "P", "atterns">> >>

\* C27: in every document that appends have built from an absent file, the
\* lines that start with "## " are the four heading lines, each once and in
\* their order.
C27_HeadingInvariant ==
    file.exists => HeadingLines(file.data) = FourHeadings

\* C30: the entry PrepareEntry builds from an accepted request has the tag
\* "[" + TagName + "]"; a tag that came as [X] is kept as it came.
C30_TagNormalForm ==
    [][\A c \in Callers, input \in pool :
          (Returns(c) /\ result'[c] \in {"ok", "notfound"})
              => /\ entry'[c].Tag = <<LB>> \o entry'[c].TagName \o <<RB>>
                 /\ (HasPrefix(input.Tag, <<LB>>) /\ input.Tag[Len(input.Tag)] = RB)
                       => entry'[c].Tag = input.Tag]_vars

\* C28: a call that is past acquireLock takes no notice of its context.  The
\* cancellation itself moves nothing; a cancelled call in the critical section
\* stays in it until it returns, is never sent to the abort path, returns what
\* the read, the splice and the write gave, never the context error, and when
\* that is success the document holds its entry.
C28_NoCancelInCritical ==
    [][\A c \in Callers :
          /\ (InCritical(c) /\ ctx[c] = "live" /\ ctx'[c] \in {"early", "late"})
                => /\ pc'[c] = pc[c]
                   /\ result'[c] = result[c]
                   /\ file' = file
                   /\ tmp' = tmp
          /\ (InCritical(c) /\ ctx[c] # "live")
                => /\ InCritical(c)' \/ pc'[c] \in {"done", "crashed"}
                   /\ Returns(c)
                         => /\ result'[c] \in AfterLock
                            /\ result'[c] = result[c]
                            /\ result'[c] = "ok"
                                  => Contains(readFile, renderEntry(entry'[c]))]_vars

\* A call that was cancelled while the lock was held has written its entry
\* and is about to return success
C28_CancelledButAppended ==
    \E c \in Callers :
        /\ pc[c] = "unlock"
        /\ ctx[c] = "late"
        /\ result[c] = "ok"
        /\ Contains(readFile, renderEntry(entry[c]))

\* The marker lines "<!-- entry-id: ..." among lines ls, in order
OpenLines(ls) == SelectSeq(ls, LAMBDA l : HasPrefix(l, <<L_OPEN>>))

\* The entry lines "* **[..." among lines ls, in order
StarLines(ls) == SelectSeq(ls, LAMBDA l : HasPrefix(l, <<L_STAR>>))

====
